---- MODULE Spec2Model ----
(***************************************************************************)
(* Model of server/app.py: the explore_stays tool (load, city filter,      *)
(* rating filter, sort, selection, response) and the stays_widget resource *)
(* (find_built_asset, build_widget_html).                                  *)
(*                                                                         *)
(* Encodings.  A Python str that the code inspects character by character  *)
(* (city) is a sequence of one-character strings.  An Optional value is    *)
(* None (the empty tuple) or Some(v) (a one-element tuple).  A stay is a   *)
(* record whose "rating" and "price_per_night" fields may be missing from  *)
(* its DOMAIN, as a JSON object's keys may.  Ratings and prices are        *)
(* integers (tenths of a point, whole currency units); float() keeps the   *)
(* value of such a number, so the comparison is the integers' one.         *)
(***************************************************************************)
EXTENDS Integers, Sequences, FiniteSets, TLC

VARIABLES
  source,    \* data/stays.json: missing, unparsable, or a JSON list of stays
  assets,    \* web/dist/assets: the built files, name -> [mtime, text]
  request,   \* the request being served (None when idle)
  response,  \* what the handler returned or raised for it (None when idle)
  loads,     \* how many times load_stays ran for the request being served
  memo       \* history: an earlier served explore_stays call, or None

vars == <<source, assets, request, response, loads, memo>>

None == <<>>
Some(v) == <<v>>

\* ------------------------------------------------------------------ bounds
MaxStays == 2
MaxTime == 2

\* ------------------------------------------------------------- Python str
UpperOf == [c \in {"p", "a"} |-> IF c = "p" THEN "P" ELSE "A"]

\* str.lower(), one character
LowerChar(c) == IF \E l \in DOMAIN UpperOf : UpperOf[l] = c
                THEN CHOOSE l \in DOMAIN UpperOf : UpperOf[l] = c
                ELSE c

\* str.lower()
Lower(s) == [i \in 1..Len(s) |-> LowerChar(s[i])]

IsSpace(c) == c \in {" ", "\t", "\n"}

RECURSIVE LStrip(_)
LStrip(s) == IF s # <<>> /\ IsSpace(Head(s)) THEN LStrip(Tail(s)) ELSE s

RECURSIVE RStrip(_)
RStrip(s) == IF s # <<>> /\ IsSpace(s[Len(s)])
             THEN RStrip(SubSeq(s, 1, Len(s) - 1))
             ELSE s

\* str.strip()
Strip(s) == RStrip(LStrip(s))

\* ------------------------------------------------------------ list helpers
RECURSIVE Reverse(_)
Reverse(s) == IF s = <<>> THEN <<>> ELSE Append(Reverse(Tail(s)), Head(s))

RECURSIVE SelectSeqOf(_, _)
\* [x for x in s if keep[x]] -- keep is a function on the elements of s
SelectSeqOf(s, keep) ==
  IF s = <<>> THEN <<>>
  ELSE IF keep[Head(s)] THEN <<Head(s)>> \o SelectSeqOf(Tail(s), keep)
       ELSE SelectSeqOf(Tail(s), keep)

Range(s) == {s[i] : i \in DOMAIN s}

\* dict.get(key, default)
Get(s, key, default) == IF key \in DOMAIN s THEN s[key] ELSE default

\* ------------------------------------------------------------------ stays
Ids == {"", "a"}
StayCities == {<<"P", "a">>, <<"p">>}
Ratings == {None, Some(4)}
Prices == {None, Some(8)}

MkStay(i, c, r, p) ==
  [id |-> i, city |-> c]
    @@ (IF r = None THEN <<>> ELSE [rating |-> r[1]])
    @@ (IF p = None THEN <<>> ELSE [price_per_night |-> p[1]])

Stays == {MkStay(i, c, r, p) : i \in Ids, c \in StayCities, r \in Ratings, p \in Prices}

SeqsUpTo(S, n) == UNION {[1..k -> S] : k \in 0..n}

Json(stays) == [kind |-> "json", stays |-> stays]
Missing == [kind |-> "missing"]
Unparsable == [kind |-> "unparsable"]

\* ------------------------------------------------------------- load_stays
\* faulty variant: the list read by an earlier call is kept and returned again
load_stays_cached ==
  IF memo # None /\ memo.source.kind = "json"
  THEN [ok |-> TRUE, stays |-> memo.source.stays]
  ELSE IF source.kind = "json" THEN [ok |-> TRUE, stays |-> source.stays]
       ELSE [ok |-> FALSE, error |-> "DataUnavailable"]

\* faulty variant: an unreadable source is taken for an empty dataset
load_stays_or_empty ==
  IF source.kind = "json" THEN [ok |-> TRUE, stays |-> source.stays]
  ELSE [ok |-> TRUE, stays |-> <<>>]

\* json.loads(DATA_PATH.read_text()): the list, or the exception raised by
\* read_text (no file) or json.loads (not JSON).
load_stays ==
  IF source.kind = "json" THEN [ok |-> TRUE, stays |-> source.stays]
  ELSE [ok |-> FALSE, error |-> "DataUnavailable"]

\* ---------------------------------------------------------- explore_stays
city_norm(city) == Lower(Strip(city))

\* faulty variant: the record's city is compared without lower-casing it
CityFilterRawCity(stays, city) ==
  SelectSeqOf(stays, [s \in Range(stays) |-> s.city = city_norm(city)])

CityFilter(stays, city) ==
  SelectSeqOf(stays, [s \in Range(stays) |-> Lower(s.city) = city_norm(city)])

\* faulty variant: a strict comparison drops the records rated exactly min_rating
RatingFilterStrict(filtered, min_rating) ==
  IF min_rating # None
  THEN SelectSeqOf(filtered,
         [s \in Range(filtered) |-> Get(s, "rating", 0) > min_rating[1]])
  ELSE filtered

RatingFilter(filtered, min_rating) ==
  IF min_rating # None
  THEN SelectSeqOf(filtered,
         [s \in Range(filtered) |-> Get(s, "rating", 0) >= min_rating[1]])
  ELSE filtered

RECURSIVE InsertByKey(_, _, _)
\* x placed after every element of the ascending list whose key is <= x's
InsertByKey(x, sorted, key) ==
  IF sorted = <<>> THEN <<x>>
  ELSE IF Get(Head(sorted), key, 0) <= Get(x, key, 0)
       THEN <<Head(sorted)>> \o InsertByKey(x, Tail(sorted), key)
       ELSE <<x>> \o sorted

RECURSIVE StableAscending(_, _)
StableAscending(s, key) ==
  IF s = <<>> THEN <<>>
  ELSE InsertByKey(s[Len(s)], StableAscending(SubSeq(s, 1, Len(s) - 1), key), key)

\* faulty variant: descending order got by reversing an ascending sort
ListSortThenReverse(s, key, reverse) ==
  IF reverse THEN Reverse(StableAscending(s, key))
  ELSE StableAscending(s, key)

\* list.sort(key=..., reverse=...): stable; with reverse the list is reversed,
\* sorted ascending and reversed again, so equal keys keep their order.
ListSort(s, key, reverse) ==
  IF reverse THEN Reverse(StableAscending(Reverse(s), key))
  ELSE StableAscending(s, key)

SortKey(sort) == IF sort = "rating" THEN "rating" ELSE "price_per_night"

Sorted(filtered, sort) == ListSort(filtered, SortKey(sort), sort = "rating")

RECURSIVE LastWithId(_, _)
\* faulty variant: the scan does not stop at the first match
LastWithId(filtered, id) ==
  IF filtered = <<>> THEN None
  ELSE IF Head(filtered).id = id /\ LastWithId(Tail(filtered), id) = None
       THEN Some(Head(filtered))
       ELSE LastWithId(Tail(filtered), id)

RECURSIVE FirstWithId(_, _)
FirstWithId(filtered, id) ==
  IF filtered = <<>> THEN None
  ELSE IF Head(filtered).id = id THEN Some(Head(filtered))
       ELSE FirstWithId(Tail(filtered), id)

\* `if selected_id:` -- None and the empty string are both falsy
Truthy(selected_id) == selected_id # None /\ selected_id[1] # ""

Select(filtered, selected_id) ==
  IF Truthy(selected_id) THEN FirstWithId(filtered, selected_id[1]) ELSE None

\* faulty variant: the city argument is echoed as given
ResultCityRaw(city) == city

\* `city.strip()` in the structured content and in the summary text
ResultCity(city) == Strip(city)

ToolResult(stays, city, min_rating, sort, selected_id) ==
  LET filtered == Sorted(RatingFilter(CityFilter(stays, city), min_rating), sort)
  IN [ok |-> TRUE,
      text |-> <<"Found ", Len(filtered), " stays in ", ResultCity(city), ".">>,
      city |-> ResultCity(city),
      results |-> filtered,
      selected |-> Select(filtered, selected_id),
      applied_filters |-> [min_rating |-> min_rating, sort |-> sort]]

Failure(error) == [ok |-> FALSE, error |-> error]

ExploreRequest(city, min_rating, sort, selected_id) ==
  [tool |-> "explore_stays", city |-> city, min_rating |-> min_rating,
   sort |-> sort, selected_id |-> selected_id]

\* faulty variant: the loaded list itself is sorted and written back to the source
explore_stays_saving(city, min_rating, sort, selected_id) ==
  /\ request = None
  /\ LET loaded == load_stays
     IN /\ response' = IF loaded.ok
                       THEN ToolResult(loaded.stays, city, min_rating, sort, selected_id)
                       ELSE Failure(loaded.error)
        /\ source' = IF loaded.ok THEN Json(Sorted(loaded.stays, sort)) ELSE source
  /\ request' = ExploreRequest(city, min_rating, sort, selected_id)
  /\ loads' = 1
  /\ UNCHANGED <<assets, memo>>

explore_stays(city, min_rating, sort, selected_id) ==
  /\ request = None
  /\ LET loaded == load_stays
     IN response' = IF loaded.ok
                    THEN ToolResult(loaded.stays, city, min_rating, sort, selected_id)
                    ELSE Failure(loaded.error)
  /\ request' = ExploreRequest(city, min_rating, sort, selected_id)
  /\ loads' = 1
  /\ UNCHANGED <<source, assets, memo>>

\* ------------------------------------------------------- find_built_asset
\* File names are sequences of characters; sorted() orders the paths of one
\* directory by their names, character code by character code.
Code == [c \in {".", "a", "b", "c", "j", "s"} |->
           CASE c = "." -> 46 [] c = "a" -> 97 [] c = "b" -> 98
             [] c = "c" -> 99 [] c = "j" -> 106 [] OTHER -> 115]

RECURSIVE StrLess(_, _)
\* the str `<` of Python
StrLess(s, t) ==
  IF t = <<>> THEN FALSE
  ELSE IF s = <<>> THEN TRUE
  ELSE IF Head(s) = Head(t) THEN StrLess(Tail(s), Tail(t))
  ELSE Code[Head(s)] < Code[Head(t)]

EndsWith(name, suffix) ==
  /\ Len(name) >= Len(suffix)
  /\ SubSeq(name, Len(name) - Len(suffix) + 1, Len(name)) = suffix

\* assets_dir.glob(f"*{suffix}")
Glob(suffix) == {n \in DOMAIN assets : EndsWith(n, suffix)}

RECURSIVE SortedNames(_)
\* sorted(...)
SortedNames(S) ==
  IF S = {} THEN <<>>
  ELSE LET least == CHOOSE n \in S : \A m \in S \ {n} : StrLess(n, m)
       IN <<least>> \o SortedNames(S \ {least})

\* faulty variant: the first candidate is read, as the docstring has it
find_built_asset_first(suffix) ==
  LET candidates == SortedNames(Glob(suffix))
  IN IF candidates = <<>> THEN [ok |-> FALSE, error |-> "AssetNotFound"]
     ELSE [ok |-> TRUE, text |-> assets[candidates[1]].text]

\* faulty variant: no candidate is no error, the text is empty
find_built_asset_lenient(suffix) ==
  LET candidates == SortedNames(Glob(suffix))
  IN IF candidates = <<>> THEN [ok |-> TRUE, text |-> ""]
     ELSE [ok |-> TRUE, text |-> assets[candidates[Len(candidates)]].text]

find_built_asset(suffix) ==
  LET candidates == SortedNames(Glob(suffix))
  IN IF candidates = <<>> THEN [ok |-> FALSE, error |-> "AssetNotFound"]
     ELSE [ok |-> TRUE, text |-> assets[candidates[Len(candidates)]].text]

JsSuffix == <<".", "j", "s">>
CssSuffix == <<".", "c", "s", "s">>

\* the f-string of build_widget_html after .strip(), as its five pieces
WidgetHtml(css, js) ==
  <<"<div id=\"root\"></div>\n<style>", css,
    "</style>\n<script type=\"module\">\n", js, "\n</script>">>

build_widget_html ==
  LET js == find_built_asset(JsSuffix)
      css == find_built_asset(CssSuffix)
  IN IF ~js.ok THEN js
     ELSE IF ~css.ok THEN css
     ELSE [ok |-> TRUE, html |-> WidgetHtml(css.text, js.text)]

stays_widget ==
  /\ request = None
  /\ LET built == build_widget_html
     IN response' = IF built.ok
                    THEN [ok |-> TRUE, content |-> built.html,
                          mime_type |-> "text/html+skybridge"]
                    ELSE Failure(built.error)
  /\ request' = [tool |-> "stays_widget"]
  /\ loads' = 0
  /\ UNCHANGED <<source, assets, memo>>

\* the framework delivers the response; the server is idle again
Reply ==
  /\ request # None
  /\ request' = None
  /\ response' = None
  /\ loads' = 0
  /\ UNCHANGED <<source, assets, memo>>

\* ------------------------------------------------------------- query spec
ArgCities == {<<" ", "P", "a">>, <<"p", "A", " ">>, <<"p">>}
ArgMinRatings == {None, Some(0), Some(4)}
ArgSorts == {"rating", "price"}
ArgSelected == {None} \cup {Some(i) : i \in Ids}

Init ==
  /\ source \in {Json(d) : d \in SeqsUpTo(Stays, MaxStays)}
  /\ assets = <<>>
  /\ request = None
  /\ response = None
  /\ loads = 0
  /\ memo = None

Query ==
  \E city \in ArgCities, min_rating \in ArgMinRatings,
     sort \in ArgSorts, selected_id \in ArgSelected :
    explore_stays(city, min_rating, sort, selected_id)

Next == Query \/ Reply

Spec == Init /\ [][Next]_vars

\* ----------------------------------------------------- data source spec
\* The file changes under the server between requests, and the history
\* variable memo may keep any served explore_stays call.
StayX == MkStay("a", <<"P", "a">>, Some(4), Some(8))
StayY == MkStay("", <<"P", "a">>, None, None)
IOStays == {StayX, StayY}
IOSources == {Missing, Unparsable} \cup {Json(d) : d \in SeqsUpTo(IOStays, MaxStays)}
IOArgCities == {<<" ", "P", "a">>}
IOArgMinRatings == {None, Some(4)}
IOArgSelected == {None, Some("a")}

InitIO ==
  /\ source \in IOSources
  /\ assets = <<>>
  /\ request = None
  /\ response = None
  /\ loads = 0
  /\ memo = None

QueryIO ==
  \E city \in IOArgCities, min_rating \in IOArgMinRatings,
     sort \in ArgSorts, selected_id \in IOArgSelected :
    explore_stays(city, min_rating, sort, selected_id)

\* the response is delivered and the call is kept in the history
ReplyNoted ==
  /\ request # None
  /\ memo' = [request |-> request, source |-> source, response |-> response]
  /\ request' = None
  /\ response' = None
  /\ loads' = 0
  /\ UNCHANGED <<source, assets>>

\* the file is replaced, removed or damaged from outside the server
WriteSource ==
  /\ request = None
  /\ \E s \in IOSources : s # source /\ source' = s
  /\ UNCHANGED <<assets, request, response, loads, memo>>

NextIO == QueryIO \/ Reply \/ ReplyNoted \/ WriteSource

SpecIO == InitIO /\ [][NextIO]_vars

\* ------------------------------------------------------------ widget spec
AssetNames == {<<"a", ".", "j", "s">>, <<"b", ".", "j", "s">>,
               <<"a", ".", "c", "s", "s">>, <<"b", ".", "c", "s", "s">>}
Texts == {"x", "y"}
AssetFiles == [mtime : 1..MaxTime, text : Texts]
AssetDirs == UNION {[names -> AssetFiles] : names \in SUBSET AssetNames}

InitWidget ==
  /\ source \in {Missing, Json(<<StayX>>)}
  /\ assets \in AssetDirs
  /\ request = None
  /\ response = None
  /\ loads = 0
  /\ memo = None

QueryWidget ==
  \E city \in IOArgCities : explore_stays(city, None, "rating", None)

NextWidget == stays_widget \/ QueryWidget \/ Reply

SpecWidget == InitWidget /\ [][NextWidget]_vars

\* ------------------------------------------------------------- properties
\* The claims are stated against the request, the response and the data
\* source, in terms that do not use the operators of the handler above.

Served == request # None /\ request.tool = "explore_stays" /\ response.ok

Count(s, v) == Cardinality({i \in DOMAIN s : s[i] = v})

\* C with its surrounding whitespace removed, then lower-cased
TrimOf(C) ==
  LET solid == {i \in DOMAIN C : ~IsSpace(C[i])}
  IN IF solid = {} THEN <<>>
     ELSE LET lo == CHOOSE i \in solid : \A j \in solid : i <= j
              hi == CHOOSE i \in solid : \A j \in solid : j <= i
          IN [k \in 1..(hi - lo + 1) |-> C[lo + k - 1]]

LowerOf(C) == [k \in DOMAIN C |-> CASE C[k] = "P" -> "p" [] C[k] = "A" -> "a" [] OTHER -> C[k]]

CityMatches(s, C) == LowerOf(s.city) = LowerOf(TrimOf(C))

RatingOf(s) == IF "rating" \in DOMAIN s THEN s.rating ELSE 0
PriceOf(s) == IF "price_per_night" \in DOMAIN s THEN s.price_per_night ELSE 0
KeyOf(s, sort) == IF sort = "rating" THEN RatingOf(s) ELSE PriceOf(s)

RatingPasses(s, r) == r = None \/ RatingOf(s) >= r[1]

Kept(s) == CityMatches(s, request.city) /\ RatingPasses(s, request.min_rating)

\* the records of the dataset that the query keeps, in dataset order
KeptInOrder == SelectSeq(source.stays, Kept)

\* C1: with min_rating absent, the results hold exactly the records whose
\* lower-cased city equals the trimmed, lower-cased city argument: each as
\* often as the dataset holds it, and no record of any other city.
C1_CityFilter ==
  (Served /\ request.min_rating = None) =>
    /\ \A i \in DOMAIN response.results :
         CityMatches(response.results[i], request.city)
    /\ \A s \in Range(source.stays) \cup Range(response.results) :
         Count(response.results, s) =
           IF CityMatches(s, request.city) THEN Count(source.stays, s) ELSE 0

\* a padded, differently-cased city argument kept one record and left out a
\* record whose city only shares a prefix with it
C1_Witness ==
  /\ Served /\ request.min_rating = None
  /\ request.city = <<" ", "P", "a">>
  /\ Len(response.results) = 1
  /\ \E i \in DOMAIN source.stays : source.stays[i].city = <<"p">>

\* C2: with min_rating present (0 included) every result is rated at least
\* min_rating, a missing rating counting as 0, and every city-matching record
\* that meets the bound is kept; with min_rating absent no record is dropped
\* for its rating.
C2_MinRating ==
  Served =>
    /\ request.min_rating # None =>
         \A i \in DOMAIN response.results :
           RatingOf(response.results[i]) >= request.min_rating[1]
    /\ \A s \in Range(source.stays) \cup Range(response.results) :
         Count(response.results, s) = IF Kept(s) THEN Count(source.stays, s) ELSE 0

\* min_rating 4 kept a record rated exactly 4 and dropped an unrated record
\* of the same city
C2_Witness ==
  /\ Served /\ request.min_rating = Some(4)
  /\ Len(response.results) = 1
  /\ RatingOf(response.results[1]) = 4
  /\ \E i \in DOMAIN source.stays :
       /\ CityMatches(source.stays[i], request.city)
       /\ "rating" \notin DOMAIN source.stays[i]

\* C3: the results are a permutation of the kept records, non-increasing in
\* rating under sort "rating" and non-decreasing in price_per_night under
\* sort "price" (a missing key counting as 0), and in both directions records
\* with equal keys keep the order they have in the dataset.
C3_SortStable ==
  Served =>
    /\ \A s \in Range(source.stays) \cup Range(response.results) :
         Count(response.results, s) = Count(KeptInOrder, s)
    /\ \A i, j \in DOMAIN response.results :
         i < j =>
           IF request.sort = "rating"
           THEN RatingOf(response.results[i]) >= RatingOf(response.results[j])
           ELSE PriceOf(response.results[i]) <= PriceOf(response.results[j])
    /\ \A k \in {KeyOf(s, request.sort) : s \in Range(source.stays)} :
         LET HasKey(s) == KeyOf(s, request.sort) = k
         IN SelectSeq(response.results, HasKey) = SelectSeq(KeptInOrder, HasKey)

\* a descending rating sort returned two different records of equal rating
C3_Witness ==
  /\ Served /\ request.sort = "rating"
  /\ Len(response.results) = 2
  /\ response.results[1] # response.results[2]
  /\ RatingOf(response.results[1]) = RatingOf(response.results[2])

\* the first result whose id is the given one, or None
FirstMatch(results, id) ==
  IF \E i \in DOMAIN results : results[i].id = id
  THEN Some(results[CHOOSE i \in DOMAIN results :
                      /\ results[i].id = id
                      /\ \A j \in DOMAIN results : results[j].id = id => i <= j])
  ELSE None

\* C4 as claimed: for any selected_id that is present, whatever the string,
\* selected is the first result with that id, or absent when there is none.
C4_AnyStringSelects ==
  (Served /\ request.selected_id # None) =>
    response.selected = FirstMatch(response.results, request.selected_id[1])

\* C4 amended: for a selected_id that is present and not the empty string,
\* selected is the first result with that id, or absent when no result has
\* it (also when only a filtered-out record has it); for an absent or empty
\* selected_id, selected is absent.  The query never fails over it, the results
\* are those of the query without selected_id, and a selected record is one
\* of the results.
C4_Selection ==
  (request # None /\ request.tool = "explore_stays" /\ source.kind = "json") =>
    /\ response.ok
    /\ response.selected =
         IF request.selected_id # None /\ request.selected_id[1] # ""
         THEN FirstMatch(response.results, request.selected_id[1])
         ELSE None
    /\ response.selected # None => response.selected[1] \in Range(response.results)
    /\ \A k \in {KeyOf(s, request.sort) : s \in Range(source.stays)} :
         LET HasKey(s) == KeyOf(s, request.sort) = k
         IN SelectSeq(response.results, HasKey) = SelectSeq(KeptInOrder, HasKey)

\* two different results carry the selected id and the first of them is
\* selected
C4_Witness ==
  /\ Served /\ request.selected_id = Some("a")
  /\ Len(response.results) = 2
  /\ response.results[1].id = "a" /\ response.results[2].id = "a"
  /\ response.results[1] # response.results[2]
  /\ response.selected = Some(response.results[1])

\* C5 as claimed: the city of the result is the city argument trimmed and
\* lower-cased, the value the records were matched against.
C5_CityIsNormalized ==
  Served => response.city = LowerOf(TrimOf(request.city))

\* C5 amended: the city of the result is the city argument with its
\* surrounding whitespace trimmed and its letter case kept; it equals the
\* value the records were matched against once lower-cased.
C5_CityIsTrimmed ==
  Served =>
    /\ response.city = TrimOf(request.city)
    /\ LowerOf(response.city) = LowerOf(TrimOf(request.city))
    /\ \A i \in DOMAIN response.results :
         LowerOf(response.results[i].city) = LowerOf(response.city)

\* a padded, capitalised argument came back trimmed and still capitalised
C5_Witness ==
  /\ Served /\ request.city = <<" ", "P", "a">>
  /\ response.city = <<"P", "a">>
  /\ Len(response.results) > 0

\* C6: a call with the arguments of an earlier call, made while the source
\* still holds what it held then, returns what the earlier call returned
\* (city, results and their order, selected, applied filters, summary text),
\* whatever was served in between; and serving a call changes neither the
\* data source nor the built assets.
C6_Idempotent ==
  /\ [](  (request # None /\ memo # None /\ memo.request = request
             /\ memo.source = source)
          => response = memo.response)
  /\ [][(request = None /\ request' # None)
          => (source' = source /\ assets' = assets)]_vars

\* the same query was answered twice with a non-empty result, and other
\* queries could run in between
C6_Witness ==
  /\ Served /\ memo # None
  /\ memo.request = request /\ memo.source = source
  /\ Len(response.results) = 2
  /\ response.selected # None

\* C7: every call answers from the content the source holds at the time of
\* that call: the results are the kept records of the current content, in
\* sorted order, and an unreadable source fails the call, whatever content an
\* earlier call has read.
C7_NoCaching ==
  (request # None /\ request.tool = "explore_stays") =>
    IF source.kind = "json"
    THEN /\ response.ok
         /\ Len(response.results) = Len(KeptInOrder)
         /\ \A k \in {KeyOf(s, request.sort) : s \in Range(source.stays)} :
              LET HasKey(s) == KeyOf(s, request.sort) = k
              IN SelectSeq(response.results, HasKey) = SelectSeq(KeptInOrder, HasKey)
    ELSE ~response.ok

\* the same query, asked again after the content changed, got other results
C7_Witness ==
  /\ Served /\ memo # None
  /\ memo.request = request /\ memo.source # source
  /\ memo.response.ok
  /\ memo.response.results # response.results
  /\ Len(response.results) > 0

\* C8: a call made while the source cannot be read or parsed ends in the
\* DataUnavailable failure and carries no result set, load_stays having run
\* once; a call made while the source is readable succeeds, also after an
\* earlier call failed.
C8_DataUnavailable ==
  (request # None /\ request.tool = "explore_stays") =>
    /\ loads = 1
    /\ source.kind # "json" =>
         /\ response = [ok |-> FALSE, error |-> "DataUnavailable"]
         /\ "results" \notin DOMAIN response
    /\ source.kind = "json" =>
         /\ response.ok
         /\ "results" \in DOMAIN response

\* a call succeeds with results after an earlier call failed on the source
C8_Witness ==
  /\ Served /\ memo # None
  /\ ~memo.response.ok
  /\ memo.source.kind = "unparsable"
  /\ Len(response.results) > 0

WidgetServed == request # None /\ request.tool = "stays_widget"

\* the texts of the built files a suffix matches
TextsOf(suffix) ==
  {assets[n].text : n \in {m \in DOMAIN assets : EndsWith(m, suffix)}}

\* C9: the widget request fails with AssetNotFound exactly when no built
\* file ends in ".js" or none ends in ".css", and else returns the wrapper
\* with a style text and a script text inlined, whatever the state of the
\* data source; an explore_stays request succeeds exactly when the data
\* source is readable, whatever the built files are.
C9_AssetNotFound ==
  /\ WidgetServed =>
       IF TextsOf(JsSuffix) = {} \/ TextsOf(CssSuffix) = {}
       THEN response = [ok |-> FALSE, error |-> "AssetNotFound"]
       ELSE /\ response.ok
            /\ \E css \in TextsOf(CssSuffix), js \in TextsOf(JsSuffix) :
                 response.content =
                   <<"<div id=\"root\"></div>\n<style>", css,
                     "</style>\n<script type=\"module\">\n", js, "\n</script>">>
  /\ (request # None /\ request.tool = "explore_stays") =>
       (response.ok <=> source.kind = "json")

\* the widget request failed for want of a style file although a script
\* file is built and the data source is readable
C9_Witness ==
  /\ WidgetServed /\ ~response.ok
  /\ TextsOf(JsSuffix) # {} /\ TextsOf(CssSuffix) = {}
  /\ source.kind = "json"

\* name order, stated from the first position at which two names differ
NameBefore(s, t) ==
  \E k \in 0..Len(s) :
    /\ k <= Len(t)
    /\ \A i \in 1..k : s[i] = t[i]
    /\ \/ (k = Len(s) /\ k < Len(t))
       \/ (k < Len(s) /\ k < Len(t) /\ Code[s[k + 1]] < Code[t[k + 1]])

Matching(suffix) == {m \in DOMAIN assets : EndsWith(m, suffix)}

Newest(suffix) ==
  {n \in Matching(suffix) :
     \A m \in Matching(suffix) : assets[m].mtime <= assets[n].mtime}

LastByName(suffix) ==
  {n \in Matching(suffix) : \A m \in Matching(suffix) \ {n} : NameBefore(m, n)}

====
